---------------------------- MODULE Spec2Model ----------------------------
(***************************************************************************)
(* A model of src/src/model_DAforcing.py: the data-assimilation forcing    *)
(* reader of t-route.  Five pipelines are modelled, each as the steps of   *)
(* the function that implements it:                                        *)
(*   - the window planner of DAforcing_model.__init__        (SpecWindow)  *)
(*   - _read_timeslice_files and _interpolate_one  (SpecTimeslice, SpecQC, *)
(*                                                  SpecChunk)             *)
(*   - _read_timeseries_files                            (SpecTimeseries)  *)
(*   - _read_lastobs_file                                   (SpecLastobs)  *)
(*   - _write_lastobs followed by _read_lastobs_file                       *)
(*                                                 (SpecLastobsRoundTrip)  *)
(* Instants are integers counting seconds; a formatted timestamp is the    *)
(* tuple of the fields strftime prints.  Discharges are exact rationals.   *)
(***************************************************************************)
EXTENDS Integers, Sequences, FiniteSets, TLC

VARIABLES
    pc,                 \* position in the function being run
    err,                \* the exception that ended the run ("none": no exception)
    \* ---- DAforcing_model.__init__, lines 50-61
    start_datetime, lookback_hrs, dt, nts,
    timeslice_start, timeslice_end, timeslice_dates,
    \* ---- _read_timeslice_files, lines 214-280
    dates, qc_threshold, frequency_secs, cpu_pool, interpolation_limit,
    d_idx,              \* position of the loop of line 223 in dates
    found,              \* the candidate timestamps glob found a file for
    observation_df,     \* the rows read so far, then the QC'd rows
    observation_df_T,   \* the pivoted table, time as the index
    buffer_df,          \* index and columns of the resampled table
    jobs,               \* the delayed _interpolate_one calls, in order
    interp_chunks,      \* per job: queued, running on a worker, or done with its result
    observation_df_new, \* the table the function returns
    \* ---- DAforcing_model.__init__, lines 102-114
    offset_hrs, rfc_forecast_persist_days,
    timeseries_start, timeseries_end,
    \* ---- _read_timeseries_files, lines 295-338
    t0, timeseries_dates, final_persist_datetime,
    files,              \* the file names glob lists in the directory
    file_list,          \* the selected file per station, in ID order
    f_idx,              \* position of the loop of line 310 in file_list
    df_file,            \* the frame of the file opened last, cut at the cutoff
    rfc_df,             \* the concatenated per-station series
    validator_raised,   \* stations for which _validate_RFC_data raised
    \* ---- _read_lastobs_file, lines 340-394
    ds,                 \* the opened last-observation dataset
    time_shift,
    last_obs_index, g_idx, last_observations, lastobs_times,
    lastobs_df,
    \* ---- _write_lastobs, lines 472-513
    values,             \* the frame and the model time given to the writer
    write_t0            \* the writer's t0

commonVars == <<pc, err>>
windowVars == <<start_datetime, lookback_hrs, dt, nts,
                timeslice_start, timeslice_end, timeslice_dates>>
timesliceVars == <<dates, qc_threshold, frequency_secs, cpu_pool,
                   interpolation_limit, d_idx, found, observation_df,
                   observation_df_T, buffer_df, jobs, interp_chunks,
                   observation_df_new>>
timeseriesVars == <<offset_hrs, rfc_forecast_persist_days, timeseries_start,
                    timeseries_end, t0, timeseries_dates,
                    final_persist_datetime, files, file_list, f_idx, df_file,
                    rfc_df, validator_raised>>
lastobsVars == <<ds, time_shift, last_obs_index, g_idx, last_observations,
                 lastobs_times, lastobs_df, values, write_t0>>
vars == <<commonVars, windowVars, timesliceVars, timeseriesVars, lastobsVars>>

(***************************************************************************)
(* Time.                                                                   *)
(***************************************************************************)
SecondsPerDay == 86400
SecondsPerHour == 3600
SecondsPerMinute == 60

\* strftime('%Y-%m-%d_%H:%M:%S'): the date (as a day number), hour, minute, second.
Strftime(t) ==
    <<t \div SecondsPerDay, (t % SecondsPerDay) \div SecondsPerHour,
      (t % SecondsPerHour) \div SecondsPerMinute, t % SecondsPerMinute>>

\* strptime / to_datetime with format '%Y-%m-%d_%H:%M:%S'.
Strptime(s) ==
    s[1] * SecondsPerDay + s[2] * SecondsPerHour + s[3] * SecondsPerMinute + s[4]

\* strftime('%Y-%m-%d_%H'): minutes and seconds are not printed.
StrftimeHour(t) == <<t \div SecondsPerDay, (t % SecondsPerDay) \div SecondsPerHour>>

\* strptime with format '%Y-%m-%d_%H'.
StrptimeHour(s) == s[1] * SecondsPerDay + s[2] * SecondsPerHour

(***************************************************************************)
(* Idle values: what a pipeline's variables hold while another one runs.   *)
(***************************************************************************)
NoTable == [index |-> <<>>, columns |-> <<>>, data |-> <<>>]

WindowIdle ==
    /\ start_datetime = 0 /\ lookback_hrs = 0 /\ dt = 0 /\ nts = 0
    /\ timeslice_start = 0 /\ timeslice_end = 0 /\ timeslice_dates = <<>>

TimesliceIdle ==
    /\ dates = <<>> /\ qc_threshold = <<0, 1>> /\ frequency_secs = 0
    /\ cpu_pool = 0 /\ interpolation_limit = 0 /\ d_idx = 0 /\ found = {}
    /\ observation_df = <<>> /\ observation_df_T = NoTable
    /\ buffer_df = NoTable /\ jobs = <<>>
    /\ interp_chunks = <<>> /\ observation_df_new = NoTable

TimeseriesIdle ==
    /\ offset_hrs = 0 /\ rfc_forecast_persist_days = 0
    /\ timeseries_start = 0 /\ timeseries_end = 0
    /\ t0 = 0 /\ timeseries_dates = <<>> /\ final_persist_datetime = 0
    /\ files = {} /\ file_list = <<>> /\ f_idx = 0 /\ df_file = <<>>
    /\ rfc_df = <<>> /\ validator_raised = {}

LastobsIdle ==
    /\ ds = [gages |-> <<>>, timeInd |-> <<>>, discharge |-> <<>>,
             time |-> <<>>, modelTimeAtOutput |-> <<0, 0, 0, 0>>]
    /\ time_shift = 0 /\ last_obs_index = <<>> /\ g_idx = 0
    /\ last_observations = <<>> /\ lastobs_times = <<>> /\ lastobs_df = <<>>
    /\ values = [lastobs_df |-> <<>>, model_time |-> 0] /\ write_t0 = 0

(***************************************************************************)
(* Window planner: DAforcing_model.__init__, lines 50-61.                  *)
(***************************************************************************)
MaxLookback == 2
MaxNts == 4
StepMinutes == 15

StartDatetimes == {SecondsPerDay + 1800, SecondsPerDay + 49507}
LookbackHours == -1 .. MaxLookback
Dts == {300, 900}
NtsValues == -2 .. MaxNts

InitWindow ==
    /\ pc = "window" /\ err = "none"
    /\ start_datetime \in StartDatetimes
    /\ lookback_hrs \in LookbackHours
    /\ dt \in Dts
    /\ nts \in NtsValues
    /\ timeslice_start = 0 /\ timeslice_end = 0 /\ timeslice_dates = <<>>
    /\ TimesliceIdle /\ TimeseriesIdle /\ LastobsIdle

\* Lines 55-58: the two ends of the window and the empty list.
WindowBounds ==
    /\ pc = "window"
    /\ timeslice_start' = start_datetime - lookback_hrs * SecondsPerHour
    /\ timeslice_end' = start_datetime + dt * nts
    /\ timeslice_dates' = <<>>
    /\ pc' = "window_loop"
    /\ UNCHANGED <<err, start_datetime, lookback_hrs, dt, nts>>
    /\ UNCHANGED <<timesliceVars, timeseriesVars, lastobsVars>>

WindowContinueStrict(s, e) == s < e

\* Line 59: the condition of the while loop.
WindowContinue(s, e) == s <= e

\* Lines 60-61: one pass of the loop.
WindowAppend ==
    /\ pc = "window_loop"
    /\ WindowContinue(timeslice_start, timeslice_end)
    /\ timeslice_dates' = Append(timeslice_dates, Strftime(timeslice_start))
    /\ timeslice_start' = timeslice_start + StepMinutes * SecondsPerMinute
    /\ UNCHANGED <<pc, err, start_datetime, lookback_hrs, dt, nts, timeslice_end>>
    /\ UNCHANGED <<timesliceVars, timeseriesVars, lastobsVars>>

\* Line 59, the condition false: the loop ends and the list stands.
WindowExit ==
    /\ pc = "window_loop"
    /\ ~WindowContinue(timeslice_start, timeslice_end)
    /\ pc' = "window_done"
    /\ UNCHANGED <<err, windowVars, timesliceVars, timeseriesVars, lastobsVars>>

NextWindow == WindowBounds \/ WindowAppend \/ WindowExit

SpecWindow == InitWindow /\ [][NextWindow]_vars

\* The window's first instant, as lines 55-56 compute the two ends.
WindowFirst == start_datetime - lookback_hrs * SecondsPerHour
WindowLast == start_datetime + dt * nts

\* C3: for valid inputs (lookback_hrs >= 0, dt*nts >= 0) the planned window is
\* a non-empty list of timestamps, each exactly 15 minutes after the one before
\* (so strictly increasing), whose first is <= start_datetime <= its last.
C3_WindowGrid ==
    (pc = "window_done" /\ lookback_hrs >= 0 /\ dt * nts >= 0) =>
        /\ Len(timeslice_dates) >= 1
        /\ \A i \in 1 .. Len(timeslice_dates) - 1 :
              Strptime(timeslice_dates[i + 1]) - Strptime(timeslice_dates[i])
                  = StepMinutes * SecondsPerMinute
        /\ Strptime(timeslice_dates[1]) <= start_datetime
        /\ start_datetime <= Strptime(timeslice_dates[Len(timeslice_dates)])

\* A finished plan of a valid window of several timestamps that ends exactly at
\* start_datetime (nts = 0): the last timestamp is the start itself.
C3_Witness ==
    /\ pc = "window_done" /\ lookback_hrs >= 1 /\ nts = 0
    /\ Len(timeslice_dates) >= 5
    /\ Strptime(timeslice_dates[Len(timeslice_dates)]) = start_datetime

\* C4: a window whose end is before its start ends the run with
\* InvalidWindowError instead of returning a (possibly empty) list.
C4_InvalidWindowRaises ==
    (pc = "window_done" /\ WindowLast < WindowFirst) => err = "InvalidWindowError"


(***************************************************************************)
(* Values of a table: a discharge is a rational n/d in lowest terms, or    *)
(* NaN (missing).                                                          *)
(***************************************************************************)
RECURSIVE GCD(_, _)
GCD(a, b) == IF b = 0 THEN a ELSE GCD(b, a % b)

Abs(x) == IF x < 0 THEN -x ELSE x

NaN == [nan |-> TRUE, n |-> 0, d |-> 1]

\* The float n/d, for d > 0.
Rat(n, d) ==
    LET g == GCD(Abs(n), d) IN [nan |-> FALSE, n |-> n \div g, d |-> d \div g]

\* a + (b - a) * num / den: the point num/den of the way from a to b.
Lerp(a, b, num, den) ==
    Rat(a.n * b.d * (den - num) + b.n * a.d * num, a.d * b.d * den)

\* q1 < q2 for two fractions <<numerator, denominator>> with positive denominators.
QLess(q1, q2) == q1[1] * q2[2] < q2[1] * q1[2]

RECURSIVE SortedRange(_, _, _)
\* The elements of S that lie in lo .. hi, ascending.
SortedRange(S, lo, hi) ==
    IF lo > hi THEN <<>>
    ELSE IF lo = hi THEN (IF lo \in S THEN <<lo>> ELSE <<>>)
    ELSE LET mid == (lo + hi) \div 2
         IN SortedRange(S, lo, mid) \o SortedRange(S, mid + 1, hi)

Min(S) == CHOOSE x \in S : \A y \in S : x <= y
Max(S) == -Min({-x : x \in S})

\* The elements of a finite set of integers, ascending.
SortedSeq(S) == IF S = {} THEN <<>> ELSE SortedRange(S, Min(S), Max(S))

\* The position of x in the sequence s (0: not there).
IndexOf(s, x) ==
    IF \E i \in 1 .. Len(s) : s[i] = x
    THEN CHOOSE i \in 1 .. Len(s) : s[i] = x
    ELSE 0

(***************************************************************************)
(* _read_timeslice_files, lines 221-231: reading the files.                *)
(***************************************************************************)
MaxDates == 3
MaxGap == 3
MaxLimit == 2
MaxRows == 3

StationIds == {1, 2}

\* The candidate timestamps: n of them, g minutes apart, from midnight.
DateLists ==
    {[i \in 1 .. n |-> Strftime(SecondsPerDay + (i - 1) * g * SecondsPerMinute)] :
        n \in 1 .. MaxDates, g \in 1 .. MaxGap}

\* What a file may hold for a station: a discharge and a raw (percent) quality.
PlainReadings ==
    {[discharge |-> 3, quality |-> 100], [discharge |-> 8, quality |-> 100],
     [discharge |-> 5, quality |-> 50]}
AllReadings == [discharge : {-4, 0, 3}, quality : {-10, 80, 100, 120}]

\* The rows the file of timestamp d yields: its readings, in the file's order,
\* each with the file's time.
FileRows(d, file) ==
    [i \in 1 .. Len(file) |->
        [stationId |-> file[i].stationId, time |-> d,
         discharge |-> Rat(file[i].discharge, 1),
         discharge_quality |-> <<file[i].quality, 1>>]]

InitTimesliceWith(Dates, Thresholds, Frequencies, Limits, Pools) ==
    /\ pc = "read" /\ err = "none"
    /\ dates \in Dates
    /\ qc_threshold \in Thresholds
    /\ frequency_secs \in Frequencies
    /\ interpolation_limit \in Limits
    /\ cpu_pool \in Pools
    /\ d_idx = 1 /\ found = {}
    /\ observation_df = <<>> /\ observation_df_T = NoTable
    /\ buffer_df = NoTable /\ jobs = <<>>
    /\ interp_chunks = <<>> /\ observation_df_new = NoTable
    /\ WindowIdle /\ TimeseriesIdle /\ LastobsIdle

\* Every file over the given stations and readings: a non-empty set of
\* stations in ascending order, each with one reading.
FileContents(Stations, Readings) ==
    UNION {{[i \in 1 .. Cardinality(S) |->
                [stationId |-> SortedSeq(S)[i],
                 discharge |-> k[SortedSeq(S)[i]].discharge,
                 quality |-> k[SortedSeq(S)[i]].quality]] :
               k \in [S -> Readings]} :
              S \in (SUBSET Stations) \ {{}}}

\* Lines 223-227, glob finds a file for dates[d_idx]: its rows are appended.
\* The file holds the readings of its own timestamp for one or more stations.
ReadFile(Contents, maxRows) ==
    /\ pc = "read" /\ d_idx <= Len(dates)
    /\ \E file \in Contents :
          /\ Len(observation_df) + Len(file) <= maxRows
          /\ observation_df' = observation_df \o FileRows(dates[d_idx], file)
    /\ found' = found \cup {dates[d_idx]}
    /\ d_idx' = d_idx + 1
    /\ UNCHANGED <<pc, err, dates, qc_threshold, frequency_secs, cpu_pool,
                   interpolation_limit, observation_df_T, buffer_df, jobs,
                   interp_chunks, observation_df_new>>
    /\ UNCHANGED <<windowVars, timeseriesVars, lastobsVars>>

\* Lines 223-225, glob finds nothing for dates[d_idx]: the timestamp is skipped.
SkipDate ==
    /\ pc = "read" /\ d_idx <= Len(dates)
    /\ d_idx' = d_idx + 1
    /\ UNCHANGED <<pc, err, dates, qc_threshold, frequency_secs, cpu_pool,
                   interpolation_limit, found, observation_df, observation_df_T,
                   buffer_df, jobs, interp_chunks, observation_df_new>>
    /\ UNCHANGED <<windowVars, timeseriesVars, lastobsVars>>

\* Line 231: discharge_quality / 100.
NormaliseQuality(q) == <<q[1], q[2] * 100>>

\* Lines 229-231, after the loop.  An empty DataFrame has no 'stationId' column:
\* line 229 raises KeyError when no file was found at all.
Normalise ==
    /\ pc = "read" /\ d_idx > Len(dates)
    /\ IF observation_df = <<>>
       THEN /\ err' = "KeyError" /\ pc' = "failed"
            /\ UNCHANGED observation_df
       ELSE /\ observation_df' =
                 [i \in 1 .. Len(observation_df) |->
                     [observation_df[i] EXCEPT
                         !.discharge_quality = NormaliseQuality(@)]]
            /\ pc' = "qc" /\ UNCHANGED err
    /\ UNCHANGED <<dates, qc_threshold, frequency_secs, cpu_pool,
                   interpolation_limit, d_idx, found, observation_df_T,
                   buffer_df, jobs, interp_chunks, observation_df_new>>
    /\ UNCHANGED <<windowVars, timeseriesVars, lastobsVars>>

(***************************************************************************)
(* Lines 233-237: quality control.                                         *)
(***************************************************************************)
BelowThresholdOrEqual(q, thr) == ~QLess(thr, q)

\* Line 236: discharge_quality < qc_threshold.
BelowThreshold(q, thr) == QLess(q, thr)

\* Lines 234-237 on one row: four masked assignments, in order; the fourth
\* reads the discharge the first three have left (NaN <= 0 is false).
QcRow(row, thr) ==
    LET null(r) == [r EXCEPT !.discharge = NaN]
        r1 == IF QLess(row.discharge_quality, <<0, 1>>) THEN null(row) ELSE row
        r2 == IF QLess(<<1, 1>>, r1.discharge_quality) THEN null(r1) ELSE r1
        r3 == IF BelowThreshold(r2.discharge_quality, thr) THEN null(r2) ELSE r2
    IN IF ~r3.discharge.nan /\ r3.discharge.n <= 0 THEN null(r3) ELSE r3

QualityControl ==
    /\ pc = "qc"
    /\ observation_df' =
          [i \in 1 .. Len(observation_df) |-> QcRow(observation_df[i], qc_threshold)]
    /\ pc' = "pivot"
    /\ UNCHANGED <<err, dates, qc_threshold, frequency_secs, cpu_pool,
                   interpolation_limit, d_idx, found, observation_df_T,
                   buffer_df, jobs, interp_chunks, observation_df_new>>
    /\ UNCHANGED <<windowVars, timeseriesVars, lastobsVars>>

(***************************************************************************)
(* Tables.  A table is [index, columns, data] with data[r][c] the value of *)
(* row index[r] and column columns[c].                                     *)
(***************************************************************************)
\* The sequence s itself, as an explicit tuple of its elements.
Values(s) == s \o <<>>

NumRows(tbl) == Len(tbl.index)
NumCols(tbl) == Len(tbl.columns)

Transpose(tbl) ==
    LET nr == NumRows(tbl)
        nc == NumCols(tbl)
    IN [index |-> tbl.columns, columns |-> tbl.index,
        data |-> Values([r \in 1 .. nc |->
                            Values([c \in 1 .. nr |-> tbl.data[c][r]])])]

RECURSIVE RowIndex(_, _, _)
\* set_index(['stationId', 'time']) on the rows lo .. hi: the row of each
\* (stationId, time) pair.
RowIndex(rows, lo, hi) ==
    IF lo = hi THEN <<rows[lo].stationId, Strptime(rows[lo].time)>> :> lo
    ELSE LET mid == (lo + hi) \div 2
         IN RowIndex(rows, lo, mid) @@ RowIndex(rows, mid + 1, hi)

\* Lines 239-245: keep stationId, time and discharge, index by (stationId,
\* time), unstack time into columns filling the absent pairs with NaN, then
\* transpose and parse the time labels.  unstack sorts both axes.
Pivot(rows) ==
    LET stations == SortedSeq({rows[i].stationId : i \in 1 .. Len(rows)})
        times == SortedSeq({Strptime(rows[i].time) : i \in 1 .. Len(rows)})
        rowOf == RowIndex(rows, 1, Len(rows))
        cell(s, t) ==
            IF <<s, t>> \in DOMAIN rowOf THEN rows[rowOf[<<s, t>>]].discharge
            ELSE NaN
    IN Transpose([index |-> stations, columns |-> times,
                  data |-> Values([r \in 1 .. Len(stations) |->
                                      Values([c \in 1 .. Len(times) |->
                                                 cell(stations[r], times[c])])])])

\* Line 248: int(frequency_secs/60) minutes, here in seconds.
Frequency(secs) == (secs \div SecondsPerMinute) * SecondsPerMinute

\* The labels of resample(f) on an index from first to last: the multiples of
\* f, counted from the midnight before first, from the one at or before first
\* to the one at or before last.
GridLabels(first, last, f) ==
    LET origin == first - (first % SecondsPerDay)
        lo == origin + ((first - origin) \div f) * f
    IN Values([k \in 1 .. ((last - lo) \div f) + 1 |-> lo + (k - 1) * f])

\* resample(f).asfreq(): the table reindexed on the labels of f; a label that
\* is no row of the table gets a row of NaN.
AsFreq(tbl, f) ==
    LET labels == GridLabels(tbl.index[1], tbl.index[NumRows(tbl)], f)
        nc == NumCols(tbl)
    IN [index |-> labels, columns |-> tbl.columns,
        data |-> Values([r \in 1 .. Len(labels) |->
                            LET at == IndexOf(tbl.index, labels[r])
                            IN Values([c \in 1 .. nc |->
                                          IF at = 0 THEN NaN
                                          ELSE tbl.data[at][c]])])]

(***************************************************************************)
(* DataFrame.interpolate(limit = L, limit_direction = 'both') of line 285, *)
(* method 'linear', on one column y.                                       *)
(***************************************************************************)
\* A NaN at i is left alone when no valid value lies within L places before
\* it and none within L places after it.
PreservedNaN(valid, i, L) ==
    /\ ~\E j \in valid : j < i /\ i - j <= L
    /\ ~\E j \in valid : j > i /\ j - i <= L

\* numpy.interp at place i: linear between the nearest valid neighbours, the
\* first (last) valid value before (after) all of them.
InterpAt(y, valid, i) ==
    LET before == {j \in valid : j < i}
        after == {j \in valid : j > i}
        lo == CHOOSE j \in before : \A k \in before : k <= j
        hi == CHOOSE j \in after : \A k \in after : j <= k
    IN IF before = {} THEN y[hi]
       ELSE IF after = {} THEN y[lo]
       ELSE Lerp(y[lo], y[hi], i - lo, hi - lo)

InterpolateSeries(y, L) ==
    LET valid == {i \in 1 .. Len(y) : ~y[i].nan}
    IN IF valid = {} THEN y
       ELSE Values([i \in 1 .. Len(y) |->
                       IF ~y[i].nan THEN y[i]
                       ELSE IF PreservedNaN(valid, i, L) THEN NaN
                       ELSE InterpAt(y, valid, i)])

Column(tbl, c) == Values([r \in 1 .. NumRows(tbl) |-> tbl.data[r][c]])

\* DataFrame.interpolate works column by column.
InterpolateFrame(tbl, L) ==
    LET nr == NumRows(tbl)
        nc == NumCols(tbl)
        cols == Values([c \in 1 .. nc |-> InterpolateSeries(Column(tbl, c), L)])
    IN [tbl EXCEPT !.data = Values([r \in 1 .. nr |->
                                       Values([c \in 1 .. nc |-> cols[c][r]])])]

\* Lines 282-293: upsample to minutes, interpolate, resample to the target
\* frequency, and return the values alone (to_numpy).
InterpolateOne(df, L, f) ==
    AsFreq(InterpolateFrame(AsFreq(df, SecondsPerMinute), L), f).data

(***************************************************************************)
(* Lines 239-280: pivot, chunked interpolation, join.                      *)
(***************************************************************************)
step == 200

PivotAndResample ==
    /\ pc = "pivot"
    /\ observation_df_T' = Pivot(observation_df)
    /\ buffer_df' = [AsFreq(observation_df_T', Frequency(frequency_secs))
                        EXCEPT !.data = <<>>]
    /\ pc' = "jobs"
    /\ UNCHANGED <<err, dates, qc_threshold, frequency_secs, cpu_pool,
                   interpolation_limit, d_idx, found, observation_df, jobs,
                   interp_chunks, observation_df_new>>
    /\ UNCHANGED <<windowVars, timeseriesVars, lastobsVars>>

ChunkStopShort(i, ncols) == IF (i + step - 1) < ncols THEN i + step - 1 ELSE ncols

\* Lines 260-263: where the chunk that starts at column i stops.
ChunkStop(i, ncols) == IF (i + step - 1) < ncols THEN i + step ELSE ncols

\* Lines 257-267: one delayed call per chunk, for i in range(0, ncols, step).
ChunkJobs(ncolsT, ncolsBuffer) ==
    [a \in 1 .. (ncolsT + step - 1) \div step |->
        [start |-> (a - 1) * step, stop |-> ChunkStop((a - 1) * step, ncolsBuffer)]]

BuildJobs ==
    /\ pc = "jobs"
    /\ jobs' = ChunkJobs(NumCols(observation_df_T), NumCols(buffer_df))
    /\ interp_chunks' = [a \in 1 .. Len(jobs') |-> [status |-> "queued", out |-> <<>>]]
    /\ pc' = "parallel"
    /\ UNCHANGED <<err, dates, qc_threshold, frequency_secs, cpu_pool,
                   interpolation_limit, d_idx, found, observation_df,
                   observation_df_T, buffer_df, observation_df_new>>
    /\ UNCHANGED <<windowVars, timeseriesVars, lastobsVars>>

\* df.iloc[:, start:stop]: the columns start+1 .. stop (counting from 1).
ILocColumns(tbl, start, stop) ==
    LET hi == IF stop < NumCols(tbl) THEN stop ELSE NumCols(tbl)
        width == IF hi > start THEN hi - start ELSE 0
    IN [index |-> tbl.index,
        columns |-> Values([c \in 1 .. width |-> tbl.columns[start + c]]),
        data |-> Values([r \in 1 .. NumRows(tbl) |->
                            Values([c \in 1 .. width |-> tbl.data[r][start + c]])])]

JobsWith(status) == {a \in 1 .. Len(interp_chunks) : interp_chunks[a].status = status}

\* Line 269: the pool hands the next job, in order, to a free worker.
StartJob ==
    /\ pc = "parallel"
    /\ JobsWith("queued") # {}
    /\ Cardinality(JobsWith("running")) < cpu_pool
    /\ LET a == CHOOSE x \in JobsWith("queued") : \A z \in JobsWith("queued") : x <= z
       IN interp_chunks' = [interp_chunks EXCEPT ![a].status = "running"]
    /\ UNCHANGED <<pc, err, dates, qc_threshold, frequency_secs, cpu_pool,
                   interpolation_limit, d_idx, found, observation_df,
                   observation_df_T, buffer_df, jobs, observation_df_new>>
    /\ UNCHANGED <<windowVars, timeseriesVars, lastobsVars>>

\* Line 266 run by a worker: any running job may be the next to finish.
FinishJob ==
    /\ pc = "parallel"
    /\ \E a \in JobsWith("running") :
          interp_chunks' =
              [interp_chunks EXCEPT
                  ![a] = [status |-> "done",
                          out |-> InterpolateOne(
                                      ILocColumns(observation_df_T,
                                                  jobs[a].start, jobs[a].stop),
                                      interpolation_limit,
                                      Frequency(frequency_secs))]]
    /\ UNCHANGED <<pc, err, dates, qc_threshold, frequency_secs, cpu_pool,
                   interpolation_limit, d_idx, found, observation_df,
                   observation_df_T, buffer_df, jobs, observation_df_new>>
    /\ UNCHANGED <<windowVars, timeseriesVars, lastobsVars>>

RECURSIVE JoinRow(_, _, _)
\* Row r of np.concatenate(chunks, axis = 1), from chunk a on.
JoinRow(chunks, r, a) ==
    IF a > Len(chunks) THEN <<>>
    ELSE chunks[a].out[r] \o JoinRow(chunks, r, a + 1)

\* Lines 271-280: the results joined in job order under the labels of
\* buffer_df, then transposed back.  The DataFrame constructor raises
\* ValueError when the joined array has not the shape of the labels.
Concatenate ==
    /\ pc = "parallel"
    /\ JobsWith("done") = 1 .. Len(interp_chunks)
    /\ LET data == Values([r \in 1 .. NumRows(buffer_df) |->
                               JoinRow(interp_chunks, r, 1)])
       IN IF \A r \in 1 .. NumRows(buffer_df) : Len(data[r]) = NumCols(buffer_df)
          THEN /\ observation_df_new' = Transpose([buffer_df EXCEPT !.data = data])
               /\ pc' = "ts_done" /\ UNCHANGED err
          ELSE /\ err' = "ValueError" /\ pc' = "failed"
               /\ UNCHANGED observation_df_new
    /\ UNCHANGED <<dates, qc_threshold, frequency_secs, cpu_pool,
                   interpolation_limit, d_idx, found, observation_df,
                   observation_df_T, buffer_df, jobs, interp_chunks>>
    /\ UNCHANGED <<windowVars, timeseriesVars, lastobsVars>>

InitTimeslice ==
    InitTimesliceWith(DateLists, {<<4, 5>>}, {60, 120}, 1 .. MaxLimit, {1})

NextTimeslice ==
    \/ ReadFile(FileContents(StationIds, PlainReadings), MaxRows)
    \/ SkipDate
    \/ Normalise
    \/ QualityControl
    \/ PivotAndResample
    \/ BuildJobs
    \/ StartJob
    \/ FinishJob
    \/ Concatenate

SpecTimeslice == InitTimeslice /\ [][NextTimeslice]_vars

\* The table upsampled to minutes, before interpolation (line 284).
MinuteTable == AsFreq(observation_df_T, SecondsPerMinute)

\* In column c of the minute table, the places a .. b are a run of missing
\* samples with a valid reading right before and right after it.
IsGap(c, a, b) ==
    /\ 1 < a /\ a <= b /\ b < NumRows(MinuteTable)
    /\ \A k \in a .. b : MinuteTable.data[k][c].nan
    /\ ~MinuteTable.data[a - 1][c].nan
    /\ ~MinuteTable.data[b + 1][c].nan

\* C1: a gap of interpolation_limit + 1 missing minute samples between two
\* valid readings still holds a missing sample after interpolation (read off
\* the returned table at the target frequency of one minute, where every
\* minute sample is returned).
C1_GapLongerThanLimitNotFilled ==
    (pc = "ts_done" /\ Frequency(frequency_secs) = SecondsPerMinute) =>
        \A c \in 1 .. NumCols(observation_df_T) :
            \A a \in 1 .. NumRows(MinuteTable) :
                LET b == a + interpolation_limit
                IN IsGap(c, a, b) =>
                      \E k \in a .. b : observation_df_new.data[c][k].nan

\* Station column c has no valid reading at or after row r of the pivoted table.
TrailingMissing(c, r) ==
    \A q \in r .. NumRows(observation_df_T) : observation_df_T.data[q][c].nan

\* C2: a sample at or after which a station has no valid reading is missing in
\* the returned table too (wherever its instant is one of the returned labels).
C2_NoExtrapolationPastEnd ==
    pc = "ts_done" =>
        \A c \in 1 .. NumCols(observation_df_T) :
            \A r \in 1 .. NumRows(observation_df_T) :
                LET at == IndexOf(observation_df_new.columns, observation_df_T.index[r])
                IN (TrailingMissing(c, r) /\ at # 0) =>
                       observation_df_new.data[c][at].nan

\* C7: whichever candidate timestamps have a file, none included, the loader
\* does not raise.
C7_AbsentFilesNeverRaise == err = "none"

(***************************************************************************)
(* The same function on directories of one or two files whose readings     *)
(* take every kind of quality and discharge.                               *)
(***************************************************************************)
QcMaxRows == 2

QcDateLists ==
    {[i \in 1 .. n |-> Strftime(SecondsPerDay + (i - 1) * SecondsPerMinute)] :
        n \in 1 .. 2}

InitQC == InitTimesliceWith(QcDateLists, {<<4, 5>>, <<1, 1>>}, {60}, {1}, {1})

NextQC ==
    \/ ReadFile(FileContents(StationIds, AllReadings), QcMaxRows)
    \/ SkipDate
    \/ Normalise
    \/ QualityControl
    \/ PivotAndResample
    \/ BuildJobs
    \/ StartJob
    \/ FinishJob
    \/ Concatenate

SpecQC == InitQC /\ [][NextQC]_vars

\* The QC rule on a row whose quality is the fraction a/b (b > 0) and whose
\* discharge is a number: quality < 0, quality > 1, quality < threshold, or
\* discharge <= 0.
RuleNulls(row, thr) ==
    \/ row.discharge_quality[1] < 0
    \/ row.discharge_quality[1] > row.discharge_quality[2]
    \/ row.discharge_quality[1] * thr[2] < thr[1] * row.discharge_quality[2]
    \/ row.discharge.n <= 0

\* C10: the step that normalises sets every quality to the raw value divided
\* by 100; the QC step that follows nulls the discharge of exactly the rows
\* with quality < 0, quality > 1, quality < qc_threshold or discharge <= 0 and
\* leaves every other row (one whose quality equals the threshold included)
\* with its discharge unchanged.
C10_QcRule ==
    [][/\ (pc = "read" /\ pc' = "qc") =>
             \A i \in 1 .. Len(observation_df) :
                 /\ observation_df'[i].discharge_quality[2] > 0
                 /\ observation_df'[i].discharge_quality[1]
                        * observation_df[i].discharge_quality[2] * 100
                    = observation_df[i].discharge_quality[1]
                        * observation_df'[i].discharge_quality[2]
       /\ (pc = "qc" /\ pc' = "pivot") =>
             /\ Len(observation_df') = Len(observation_df)
             /\ \A i \in 1 .. Len(observation_df) :
                    observation_df'[i].discharge =
                        IF RuleNulls(observation_df[i], qc_threshold)
                        THEN NaN
                        ELSE observation_df[i].discharge]_vars

\* QC has run on two readings of raw quality 80 under the threshold 0.8: the
\* one with a positive discharge kept it, the one with discharge 0 lost it.
C10_Witness ==
    /\ pc = "pivot" /\ qc_threshold = <<4, 5>>
    /\ Len(observation_df) = 2
    /\ \A i \in 1 .. 2 : observation_df[i].discharge_quality = <<80, 100>>
    /\ observation_df[1].discharge = Rat(3, 1)
    /\ observation_df[2].discharge = NaN

(***************************************************************************)
(* The same function on files of many stations, so that the columns fall   *)
(* into several chunks, with a pool of one or more workers.                *)
(***************************************************************************)
MaxCols == 401
MaxCpuPool == 2

ChunkColumnCounts == {1, step - 1, step, step + 1, 2 * step, MaxCols}

\* Two candidate timestamps two minutes apart: one minute to interpolate.
ChunkDateLists ==
    {<<Strftime(SecondsPerDay), Strftime(SecondsPerDay + 2 * SecondsPerMinute)>>}

\* A file of the stations 1 .. N: the discharge differs from station to
\* station, and some stations have a reading of low quality.
ChunkFile(N) ==
    [s \in 1 .. N |->
        [stationId |-> s, discharge |-> 1 + ((s + N) % 7),
         quality |-> IF (s + N) % 3 = 0 THEN 50 ELSE 100]]

ChunkContents == {ChunkFile(N) : N \in ChunkColumnCounts}

InitChunk ==
    InitTimesliceWith(ChunkDateLists, {<<4, 5>>}, {60}, {1}, 1 .. MaxCpuPool)

NextChunk ==
    \/ ReadFile(ChunkContents, 2 * MaxCols)
    \/ SkipDate
    \/ Normalise
    \/ QualityControl
    \/ PivotAndResample
    \/ BuildJobs
    \/ StartJob
    \/ FinishJob
    \/ Concatenate

SpecChunk == InitChunk /\ [][NextChunk]_vars

\* The chunks are consecutive column ranges of at most step columns that
\* start at column 0 and end at the last column: disjoint, covering all.
ChunksPartition ==
    /\ Len(jobs) >= 1
    /\ jobs[1].start = 0
    /\ jobs[Len(jobs)].stop = NumCols(observation_df_T)
    /\ \A a \in 1 .. Len(jobs) :
          /\ jobs[a].start < jobs[a].stop
          /\ jobs[a].stop - jobs[a].start <= step
    /\ \A a \in 1 .. Len(jobs) - 1 : jobs[a + 1].start = jobs[a].stop

\* C8: once the jobs are built the chunks partition the columns; the run ends
\* without an error; and the returned table has the stations of the pivoted
\* table, in its order, the row of station k being the interpolation of the
\* whole table in one call (sequential execution) at column k.
C8_ChunkedEqualsSequential ==
    /\ pc \in {"parallel", "ts_done"} => ChunksPartition
    /\ (pc = "failed") => err = "KeyError"
    /\ pc = "ts_done" =>
          LET whole == InterpolateOne(observation_df_T, interpolation_limit,
                                      Frequency(frequency_secs))
          IN /\ observation_df_new.index = observation_df_T.columns
             /\ \A k \in 1 .. NumCols(observation_df_T) :
                    \A r \in 1 .. NumRows(buffer_df) :
                        observation_df_new.data[k][r] = whole[r][k]

\* A finished run over three chunks on a pool of two workers, with an
\* interpolated (non-integer) value in a column after the first chunk.
C8_Witness ==
    /\ pc = "ts_done" /\ Len(jobs) = 3 /\ cpu_pool = 2
    /\ NumRows(observation_df_new) = MaxCols
    /\ NumCols(observation_df_new) = 3
    /\ \E k \in step + 1 .. MaxCols : observation_df_new.data[k][2].d = 2

(***************************************************************************)
(* Forecast time series: the candidate window of DAforcing_model.__init__  *)
(* (lines 102-114) and _read_timeseries_files (lines 295-338).             *)
(* A file name 'Datetime.60min.ID.RFCTimeSeries.ncdf' is the record of its *)
(* Datetime field (the printed hour) and its ID field.  A row of the       *)
(* series keeps the columns the function computes; the data columns read   *)
(* from the file (discharges, synthetic_values, ...) pass through as read. *)
(***************************************************************************)
MaxRfcLookback == 2
MaxFiles == 3
MaxPeriods == 4

RfcStartDatetimes == {SecondsPerDay + 1800}
RfcLookbackHours == 0 .. MaxRfcLookback
OffsetHours == {0, 2}
PersistDays == {0, 1}
RfcIds == {1, 2}
FileHours == {<<0, 23>>, <<1, 0>>, <<1, 1>>, <<1, 3>>}
FileNames == [Datetime : FileHours, ID : RfcIds]
Directories == {D \in SUBSET FileNames : Cardinality(D) <= MaxFiles}

\* The contents a forecast file may have: its sliceStartTimeUTC relative to
\* the simulation start, its number of forecastInd rows, its resolution.
SliceStartOffsets == {-12 * SecondsPerHour, 0}
Periods == {1, MaxPeriods}
SliceTimeResolutionMinutes == {60, 720}

InitTimeseries ==
    /\ pc = "rfc_window" /\ err = "none"
    /\ start_datetime \in RfcStartDatetimes
    /\ lookback_hrs \in RfcLookbackHours
    /\ offset_hrs \in OffsetHours
    /\ rfc_forecast_persist_days \in PersistDays
    /\ files \in Directories
    /\ dt = 0 /\ nts = 0
    /\ timeslice_start = 0 /\ timeslice_end = 0 /\ timeslice_dates = <<>>
    /\ timeseries_start = 0 /\ timeseries_end = 0
    /\ t0 = 0 /\ timeseries_dates = <<>> /\ final_persist_datetime = 0
    /\ file_list = <<>> /\ f_idx = 0 /\ df_file = <<>> /\ rfc_df = <<>>
    /\ validator_raised = {}
    /\ TimesliceIdle /\ LastobsIdle

\* Lines 105-108: the two ends of the candidate window and the empty list.
TimeseriesBounds ==
    /\ pc = "rfc_window"
    /\ timeseries_end' = start_datetime + offset_hrs * SecondsPerHour
    /\ timeseries_start' =
           start_datetime + offset_hrs * SecondsPerHour
               - lookback_hrs * SecondsPerHour
    /\ timeseries_dates' = <<>>
    /\ pc' = "rfc_window_loop"
    /\ UNCHANGED <<err, windowVars, timesliceVars, lastobsVars>>
    /\ UNCHANGED <<offset_hrs, rfc_forecast_persist_days, t0,
                   final_persist_datetime, files, file_list, f_idx, df_file,
                   rfc_df, validator_raised>>

\* Lines 109-111: one pass of the loop, one candidate hour.
TimeseriesAppend ==
    /\ pc = "rfc_window_loop"
    /\ timeseries_start <= timeseries_end
    /\ timeseries_dates' = Append(timeseries_dates, StrftimeHour(timeseries_start))
    /\ timeseries_start' = timeseries_start + SecondsPerHour
    /\ UNCHANGED <<pc, err, windowVars, timesliceVars, lastobsVars>>
    /\ UNCHANGED <<offset_hrs, rfc_forecast_persist_days, timeseries_end, t0,
                   final_persist_datetime, files, file_list, f_idx, df_file,
                   rfc_df, validator_raised>>

\* Lines 109, 113-114 and 119: the loop ends, the persistence cutoff is
\* computed and _read_timeseries_files is called with t0 = start_datetime.
TimeseriesExit ==
    /\ pc = "rfc_window_loop"
    /\ ~(timeseries_start <= timeseries_end)
    /\ final_persist_datetime' =
           start_datetime + rfc_forecast_persist_days * SecondsPerDay
    /\ t0' = start_datetime
    /\ pc' = "rfc_select"
    /\ UNCHANGED <<err, windowVars, timesliceVars, lastobsVars>>
    /\ UNCHANGED <<offset_hrs, rfc_forecast_persist_days, timeseries_start,
                   timeseries_end, timeseries_dates, files, file_list, f_idx,
                   df_file, rfc_df, validator_raised>>

\* The elements of a sequence.
Range(s) == {s[i] : i \in 1 .. Len(s)}

\* Line 301: the file names whose Datetime field is one of the candidate
\* strings, with line 303's strptime applied to it.
InWindow(names, candidates) ==
    {[ID |-> f.ID, Datetime |-> StrptimeHour(f.Datetime)] :
        f \in {g \in names : g.Datetime \in Range(candidates)}}

OldestIssue(df, id) == Min({f.Datetime : f \in {g \in df : g.ID = id}})

\* Line 304: groupby('ID').max(), the greatest Datetime of one ID.
LatestIssue(df, id) == Max({f.Datetime : f \in {g \in df : g.ID = id}})

\* Lines 304-308: one row per ID in ascending ID order, the Datetime printed
\* again and put back into a file name.
SelectedFiles(df) ==
    LET ids == SortedSeq({f.ID : f \in df})
    IN Values([i \in 1 .. Len(ids) |->
                  [Datetime |-> StrftimeHour(LatestIssue(df, ids[i])),
                   ID |-> ids[i]]])

\* Lines 298-309.  With no file in the window the frame of line 304 is empty
\* and its Datetime column holds no datetimes: line 305's .dt accessor raises
\* AttributeError.
SelectFiles ==
    /\ pc = "rfc_select"
    /\ LET df == InWindow(files, timeseries_dates)
       IN IF df = {}
          THEN /\ err' = "AttributeError" /\ pc' = "failed"
               /\ UNCHANGED <<file_list, f_idx>>
          ELSE /\ file_list' = SelectedFiles(df)
               /\ f_idx' = 1
               /\ pc' = "rfc_loop"
               /\ err' = err
    /\ rfc_df' = <<>>
    /\ UNCHANGED <<windowVars, timesliceVars, lastobsVars>>
    /\ UNCHANGED <<offset_hrs, rfc_forecast_persist_days, timeseries_start,
                   timeseries_end, t0, timeseries_dates,
                   final_persist_datetime, files, df_file, validator_raised>>

\* Lines 312-316: the rows of one file in forecastInd order, labelled 0, 1,
\* ... by reset_index, with the time axis date_range builds.
SliceFrame(sliceStartTime, periods, resolution) ==
    Values([i \in 1 .. periods |->
               [index |-> i - 1,
                Datetime |-> sliceStartTime
                                 + (i - 1) * resolution * SecondsPerMinute]])

TruncateInclusive(df, final) == SelectSeq(df, LAMBDA r : r.Datetime <= final)

\* Line 318: df[df['Datetime'] < final_persist_datetime].
Truncate(df, final) == SelectSeq(df, LAMBDA r : r.Datetime < final)

\* Line 320: df.index[df.Datetime == t0], the labels of the rows at t0.
Located(df, t) == {df[i].index : i \in {j \in 1 .. Len(df) : df[j].Datetime = t}}

\* What a call of _validate_RFC_data (troute.routing.fast_reach.
\* reservoir_RFC_da) can do: return True, return False, or raise.
validate_RFC_data == {"True", "False", "raises"}

\* The dataset line 311 opens for the file at f_idx, cut at the cutoff.
OpenedFrame(offset, periods, resolution) ==
    Truncate(SliceFrame(t0 + offset, periods, resolution), final_persist_datetime)

\* Lines 311-320, t0 not on the file's time axis: [0] on the empty index
\* raises IndexError.
LocateFails ==
    /\ pc = "rfc_loop" /\ f_idx <= Len(file_list)
    /\ \E offset \in SliceStartOffsets, periods \in Periods,
          resolution \in SliceTimeResolutionMinutes :
          /\ Located(OpenedFrame(offset, periods, resolution), t0) = {}
          /\ df_file' = OpenedFrame(offset, periods, resolution)
    /\ err' = "IndexError" /\ pc' = "failed"
    /\ UNCHANGED <<windowVars, timesliceVars, lastobsVars>>
    /\ UNCHANGED <<offset_hrs, rfc_forecast_persist_days, timeseries_start,
                   timeseries_end, t0, timeseries_dates,
                   final_persist_datetime, files, file_list, f_idx, rfc_df,
                   validator_raised>>

\* Lines 311-332, the validator raising: the call of line 324 is not inside
\* a try block, so the exception leaves _read_timeseries_files.
ValidatorRaises ==
    /\ pc = "rfc_loop" /\ f_idx <= Len(file_list)
    /\ \E offset \in SliceStartOffsets, periods \in Periods,
          resolution \in SliceTimeResolutionMinutes :
          /\ Located(OpenedFrame(offset, periods, resolution), t0) # {}
          /\ df_file' = OpenedFrame(offset, periods, resolution)
    /\ "raises" \in validate_RFC_data
    /\ validator_raised' = validator_raised \cup {file_list[f_idx].ID}
    /\ err' = "Exception" /\ pc' = "failed"
    /\ UNCHANGED <<windowVars, timesliceVars, lastobsVars>>
    /\ UNCHANGED <<offset_hrs, rfc_forecast_persist_days, timeseries_start,
                   timeseries_end, t0, timeseries_dates,
                   final_persist_datetime, files, file_list, f_idx, rfc_df>>

\* Lines 311-336, one pass of the loop: the file's rows, with the position
\* of t0, the file name, the validator's answer and the time step, are
\* appended to rfc_df.
AppendTimeseries ==
    /\ pc = "rfc_loop" /\ f_idx <= Len(file_list)
    /\ \E offset \in SliceStartOffsets, periods \in Periods,
          resolution \in SliceTimeResolutionMinutes,
          use_rfc \in validate_RFC_data \ {"raises"} :
          LET df == OpenedFrame(offset, periods, resolution)
              at == Located(df, t0)
              f == file_list[f_idx]
          IN /\ at # {}
             /\ df_file' = df
             /\ rfc_df' = rfc_df \o
                    Values([i \in 1 .. Len(df) |->
                               [stationId |-> f.ID,
                                index |-> df[i].index,
                                Datetime |-> df[i].Datetime,
                                timeseries_idx |-> Min(at),
                                file |-> f,
                                use_rfc |-> (use_rfc = "True"),
                                da_timestep |-> resolution * SecondsPerMinute]])
    /\ f_idx' = f_idx + 1
    /\ UNCHANGED <<pc, err, windowVars, timesliceVars, lastobsVars>>
    /\ UNCHANGED <<offset_hrs, rfc_forecast_persist_days, timeseries_start,
                   timeseries_end, t0, timeseries_dates,
                   final_persist_datetime, files, file_list,
                   validator_raised>>

\* Lines 310 and 337-338: the loop is over and the series is returned.
ReturnTimeseries ==
    /\ pc = "rfc_loop" /\ f_idx > Len(file_list)
    /\ pc' = "rfc_done"
    /\ UNCHANGED <<err, windowVars, timesliceVars, timeseriesVars, lastobsVars>>

NextTimeseries ==
    \/ TimeseriesBounds \/ TimeseriesAppend \/ TimeseriesExit
    \/ SelectFiles
    \/ LocateFails \/ ValidatorRaises \/ AppendTimeseries
    \/ ReturnTimeseries

SpecTimeseries == InitTimeseries /\ [][NextTimeseries]_vars

\* a <= b for two printed hours <<day, hour>>.
HourLeq(a, b) == a[1] < b[1] \/ (a[1] = b[1] /\ a[2] <= b[2])

\* The files of one station whose issue hour is in the candidate set.
Candidates(id) ==
    {f \in files : f.ID = id /\ \E i \in 1 .. Len(timeseries_dates) :
                                    timeseries_dates[i] = f.Datetime}

\* C5: once the selection has run, every station with a file in the
\* candidate set has exactly one selected file, that file is one of its
\* candidates and no candidate of the station is more recent; a station with
\* no candidate has no selected file, and no file outside the candidate set
\* is selected.
C5_LatestCandidatePerStation ==
    pc \in {"rfc_loop", "rfc_done", "failed"} =>
        /\ \A id \in RfcIds :
              LET sel == {i \in 1 .. Len(file_list) : file_list[i].ID = id}
              IN IF Candidates(id) = {}
                 THEN sel = {}
                 ELSE /\ Cardinality(sel) = 1
                      /\ \A i \in sel :
                            /\ file_list[i] \in Candidates(id)
                            /\ \A f \in Candidates(id) :
                                  HourLeq(f.Datetime, file_list[i].Datetime)
        /\ \A i \in 1 .. Len(file_list) : file_list[i].ID \in RfcIds

\* A selection over a directory where one station has two candidates and
\* a file after the window, and the other station has only a file outside.
C5_Witness ==
    /\ pc = "rfc_loop" /\ Len(file_list) = 1
    /\ Cardinality(Candidates(1)) = 2
    /\ Candidates(2) = {}
    /\ Cardinality(files) = MaxFiles
    /\ \E f \in files : f.ID = 2

\* The positions (from 1) of the rows of a frame whose Datetime is t.
RowsAt(df, t) == {k \in 1 .. Len(df) : df[k].Datetime = t}

\* C11: in every pass of the loop over the selected files the frame kept
\* has only rows strictly before the persistence cutoff; when the simulation
\* start is not on it the function fails at once (the alignment failure is
\* Python's IndexError), nothing is appended, the station is not skipped and
\* a failed run takes no further step, so nothing is returned; otherwise
\* every row appended for the file carries as timeseries_idx the position,
\* counted from 0, of the row whose Datetime is the simulation start.
C11_TruncateThenLocate ==
    [][/\ pc # "failed"
       /\ (pc = "rfc_loop" /\ f_idx <= Len(file_list)) =>
             /\ \A k \in 1 .. Len(df_file') :
                    df_file'[k].Datetime < final_persist_datetime
             /\ RowsAt(df_file', t0) = {} =>
                    /\ pc' = "failed" /\ err' = "IndexError"
                    /\ rfc_df' = rfc_df /\ f_idx' = f_idx
             /\ (RowsAt(df_file', t0) # {} /\ pc' # "failed") =>
                    /\ Len(rfc_df') = Len(rfc_df) + Len(df_file')
                    /\ \A i \in 1 .. Len(df_file') :
                          LET r == rfc_df'[Len(rfc_df) + i]
                          IN /\ r.Datetime = df_file'[i].Datetime
                             /\ \A k \in RowsAt(df_file', t0) :
                                   r.timeseries_idx = k - 1]_vars

\* A run that failed on its second file: the first file lost its last row
\* to the cutoff and has the simulation start at position 1, the second
\* file's axis does not hold the simulation start.
C11_Witness ==
    /\ pc = "failed" /\ err = "IndexError" /\ f_idx = 2
    /\ df_file # <<>> /\ RowsAt(df_file, t0) = {}
    /\ Len(rfc_df) = MaxPeriods - 1
    /\ \A i \in 1 .. Len(rfc_df) : rfc_df[i].timeseries_idx = 1

\* C9: a station whose validator call raised is in the returned series with
\* use_rfc false, and the run has not failed.
C9_ValidatorErrorMeansUnusable ==
    \A id \in validator_raised :
        /\ pc # "failed"
        /\ \E i \in 1 .. Len(rfc_df) :
              rfc_df[i].stationId = id /\ ~rfc_df[i].use_rfc

(***************************************************************************)
(* Last observations: _read_lastobs_file, lines 340-394.                   *)
(* The dataset holds, per gage (stationIdInd) and time index (timeInd), a  *)
(* discharge and a printed timestamp, and the attribute modelTimeAtOutput. *)
(***************************************************************************)
MaxGages == 2
MaxTimes == 3

discharge_nan == -9999
TimeShifts == {0, 60}
ObsSpacing == 300
ModelTimesAtOutput == {SecondsPerDay + SecondsPerHour}

\* The reading of gage g at position k of the time axis, when there is one.
Reading(g, k) == 3 + 2 * g + k

\* A file the function may be given: G gages and T time indices; a gage
\* has the sentinel where missing says so and a reading elsewhere; the
\* printed times of a gage are ObsSpacing apart and the last one is just
\* before the model time.
LastobsFile(G, T, missing, ref) ==
    [gages |-> Values([g \in 1 .. G |-> g]),
     timeInd |-> Values([k \in 1 .. T |-> k - 1]),
     discharge |-> Values([g \in 1 .. G |-> Values([k \in 1 .. T |->
                      IF missing[g][k] THEN Rat(discharge_nan, 1)
                      ELSE Rat(Reading(g, k), 1)])]),
     time |-> Values([g \in 1 .. G |-> Values([k \in 1 .. T |->
                  Strftime(ref - (T - k) * ObsSpacing - g)])]),
     modelTimeAtOutput |-> Strftime(ref)]

InitLastobs ==
    /\ pc = "lastobs" /\ err = "none"
    /\ \E G \in 1 .. MaxGages, T \in 1 .. MaxTimes, ref \in ModelTimesAtOutput :
          \E missing \in [1 .. G -> [1 .. T -> BOOLEAN]] :
              ds = LastobsFile(G, T, missing, ref)
    /\ time_shift \in TimeShifts
    /\ last_obs_index = <<>> /\ g_idx = 0
    /\ last_observations = <<>> /\ lastobs_times = <<>> /\ lastobs_df = <<>>
    /\ values = [lastobs_df |-> <<>>, model_time |-> 0] /\ write_t0 = 0
    /\ WindowIdle /\ TimesliceIdle /\ TimeseriesIdle

\* Line 354: the last label of the time index.
LastTs(d) == d.timeInd[Len(d.timeInd)]

\* Lines 356-360: the discharges with the sentinel replaced by NaN, one
\* column per gage and one row per time index.
DfDischarge(d) ==
    Values([g \in 1 .. Len(d.gages) |-> Values([k \in 1 .. Len(d.timeInd) |->
        IF d.discharge[g][k] = Rat(discharge_nan, 1) THEN NaN
        ELSE d.discharge[g][k]])])

FirstValidIndex(col, labels) ==
    LET valid == {k \in 1 .. Len(col) : ~col[k].nan}
    IN IF valid = {} THEN [none |-> TRUE, label |-> 0]
       ELSE [none |-> FALSE, label |-> labels[Min(valid)]]

\* pd.Series.last_valid_index: the label of the last value that is not NaN,
\* None when the column has none.
LastValidIndex(col, labels) ==
    LET valid == {k \in 1 .. Len(col) : ~col[k].nan}
    IN IF valid = {} THEN [none |-> TRUE, label |-> 0]
       ELSE [none |-> FALSE, label |-> labels[Max(valid)]]

\* Lines 362-367.  apply(...).to_numpy() is a float array with NaN for None
\* when some column has a valid value, and nan_to_num puts last_ts there;
\* when every column gives None it is an object array of None, nan_to_num
\* returns it as it is and astype(int) raises TypeError.
LastValidIndices ==
    /\ pc = "lastobs"
    /\ LET df_discharge == DfDischarge(ds)
           idx == Values([g \in 1 .. Len(ds.gages) |->
                             LastValidIndex(df_discharge[g], ds.timeInd)])
       IN IF \A g \in 1 .. Len(idx) : idx[g].none
          THEN /\ err' = "TypeError" /\ pc' = "failed"
               /\ UNCHANGED <<last_obs_index, g_idx>>
          ELSE /\ last_obs_index' =
                      Values([g \in 1 .. Len(idx) |->
                                 IF idx[g].none THEN LastTs(ds)
                                 ELSE idx[g].label])
               /\ g_idx' = 1
               /\ pc' = "lastobs_loop" /\ err' = err
    /\ last_observations' = <<>> /\ lastobs_times' = <<>>
    /\ UNCHANGED <<ds, time_shift, lastobs_df, values, write_t0>>
    /\ UNCHANGED <<windowVars, timesliceVars, timeseriesVars>>

\* Lines 371-373: one pass of the loop, the reading and the printed time of
\* one gage at its index (iloc and values take positions, counted from 0).
LastobsAppend ==
    /\ pc = "lastobs_loop" /\ g_idx <= Len(last_obs_index)
    /\ LET idx == last_obs_index[g_idx]
       IN /\ last_observations' =
                 Append(last_observations, DfDischarge(ds)[g_idx][idx + 1])
          /\ lastobs_times' = Append(lastobs_times, ds.time[g_idx][idx + 1])
    /\ g_idx' = g_idx + 1
    /\ UNCHANGED <<pc, err, ds, time_shift, last_obs_index, lastobs_df,
                   values, write_t0>>
    /\ UNCHANGED <<windowVars, timesliceVars, timeseriesVars>>

\* Lines 375-394: the times are parsed, the reference time and the shift
\* are subtracted, and the three columns make the returned frame.
LastobsReturn ==
    /\ pc = "lastobs_loop" /\ g_idx > Len(last_obs_index)
    /\ LET ref_time == Strptime(ds.modelTimeAtOutput)
       IN lastobs_df' =
              Values([g \in 1 .. Len(ds.gages) |->
                         [gages |-> ds.gages[g],
                          time_since_lastobs |->
                              (Strptime(lastobs_times[g]) - ref_time) - time_shift,
                          lastobs_discharge |-> last_observations[g]]])
    /\ pc' = "lastobs_done"
    /\ UNCHANGED <<err, ds, time_shift, last_obs_index, g_idx,
                   last_observations, lastobs_times, values, write_t0>>
    /\ UNCHANGED <<windowVars, timesliceVars, timeseriesVars>>

NextLastobs == LastValidIndices \/ LastobsAppend \/ LastobsReturn

SpecLastobs == InitLastobs /\ [][NextLastobs]_vars

\* The gage g of the dataset has the sentinel at every time index.
AllMissing(g) ==
    \A k \in 1 .. Len(ds.timeInd) : ds.discharge[g][k] = Rat(discharge_nan, 1)

\* C6: with a gage whose whole series is the sentinel the function does not
\* raise, and the frame it returns has, for that gage, a missing discharge
\* and the time of the last index of the time axis.
C6_AllMissingGageDefaultsToLastIndex ==
    \A g \in 1 .. Len(ds.gages) :
        AllMissing(g) =>
            /\ err = "none"
            /\ pc = "lastobs_done" =>
                  /\ lastobs_df[g].lastobs_discharge = NaN
                  /\ lastobs_df[g].time_since_lastobs =
                         Strptime(ds.time[g][Len(ds.timeInd)])
                             - Strptime(ds.modelTimeAtOutput) - time_shift

(***************************************************************************)
(* Writing last observations: _write_lastobs, lines 472-513, and reading   *)
(* the written file back with _read_lastobs_file.                          *)
(***************************************************************************)
WriteT0s == {SecondsPerDay}
ModelTimes == {SecondsPerHour, SecondsPerDay - ObsSpacing}
TimesSinceLastobs == {-SecondsPerHour - 1, -ObsSpacing, 0, 2 * ObsSpacing}
WrittenDischarges == {Rat(5, 1), NaN}

\* The rows values['lastobs_df'] may hold: a gage never observed has NaN in
\* both columns, any other gage a whole number of seconds and a discharge
\* that may be NaN.
WriterRows ==
    {[time_since_lastobs |-> NaN, lastobs_discharge |-> NaN]} \cup
    [time_since_lastobs : {Rat(x, 1) : x \in TimesSinceLastobs},
     lastobs_discharge : WrittenDischarges]

InitWrite ==
    /\ pc = "write" /\ err = "none"
    /\ \E G \in 1 .. MaxGages, model_time \in ModelTimes :
          \E rows \in [1 .. G -> WriterRows] :
              values = [lastobs_df |-> Values([g \in 1 .. G |->
                            [time_since_lastobs |-> rows[g].time_since_lastobs,
                             lastobs_discharge |-> rows[g].lastobs_discharge,
                             gages |-> g]]),
                        model_time |-> model_time]
    /\ write_t0 \in WriteT0s
    /\ time_shift \in TimeShifts
    /\ ds = [gages |-> <<>>, timeInd |-> <<>>, discharge |-> <<>>,
             time |-> <<>>, modelTimeAtOutput |-> <<0, 0, 0, 0>>]
    /\ last_obs_index = <<>> /\ g_idx = 0
    /\ last_observations = <<>> /\ lastobs_times = <<>> /\ lastobs_df = <<>>
    /\ WindowIdle /\ TimesliceIdle /\ TimeseriesIdle

\* Line 490: Series.fillna(0) on the seconds column.
FillNa(x, v) == IF x.nan THEN v ELSE x.n

\* Lines 479-513: the model time is printed, every gage gets the printed
\* instant modelTimeAtOutput + time_since_lastobs as its single time entry
\* and its discharge as its single reading, and the file is written; the
\* reader then opens that file.
WriteLastobs ==
    /\ pc = "write"
    /\ LET rows == values.lastobs_df
           modelTimeAtOutput == write_t0 + values.model_time
       IN ds' = [gages |-> Values([g \in 1 .. Len(rows) |-> rows[g].gages]),
                 timeInd |-> <<0>>,
                 discharge |-> Values([g \in 1 .. Len(rows) |->
                                  <<rows[g].lastobs_discharge>>]),
                 time |-> Values([g \in 1 .. Len(rows) |->
                              <<Strftime(modelTimeAtOutput
                                   + FillNa(rows[g].time_since_lastobs, 0))>>]),
                 modelTimeAtOutput |-> Strftime(modelTimeAtOutput)]
    /\ pc' = "lastobs"
    /\ UNCHANGED <<err, time_shift, last_obs_index, g_idx, last_observations,
                   lastobs_times, lastobs_df, values, write_t0>>
    /\ UNCHANGED <<windowVars, timesliceVars, timeseriesVars>>

NextLastobsRoundTrip == WriteLastobs \/ NextLastobs

\* The reader is given a file of its own or the file the writer wrote.
InitLastobsRoundTrip == InitLastobs \/ InitWrite

SpecLastobsRoundTrip == InitLastobsRoundTrip /\ [][NextLastobsRoundTrip]_vars

\* The positions on the time axis where gage g has a reading.
ValidAt(g) ==
    {k \in 1 .. Len(ds.timeInd) :
        /\ ds.discharge[g][k] # Rat(discharge_nan, 1)
        /\ ~ds.discharge[g][k].nan}

\* C12: in the returned frame every gage with a reading has its last
\* reading as lastobs_discharge and, as time_since_lastobs, the seconds
\* from the reference time to that reading's time, less time_shift; and
\* when the file was written by _write_lastobs and is read with a
\* time_shift of 0, such a gage gets back the time_since_lastobs that was
\* written.
C12_LastReadingAndRoundTrip ==
    pc = "lastobs_done" =>
        \A g \in 1 .. Len(ds.gages) :
            ValidAt(g) # {} =>
                LET k == CHOOSE j \in ValidAt(g) : \A i \in ValidAt(g) : i <= j
                IN /\ lastobs_df[g].lastobs_discharge = ds.discharge[g][k]
                   /\ lastobs_df[g].time_since_lastobs =
                          (Strptime(ds.time[g][k])
                              - Strptime(ds.modelTimeAtOutput)) - time_shift
                   /\ (values.lastobs_df # <<>> /\ time_shift = 0) =>
                          /\ ~values.lastobs_df[g].time_since_lastobs.nan
                          /\ lastobs_df[g].time_since_lastobs =
                                 values.lastobs_df[g].time_since_lastobs.n

\* A written file read back whole: gage 1 was observed an hour and a second
\* before a model time just before midnight, gage 2 never.
C12_Witness ==
    /\ pc = "lastobs_done" /\ time_shift = 0
    /\ Len(values.lastobs_df) = MaxGages
    /\ values.model_time = SecondsPerDay - ObsSpacing
    /\ lastobs_df[1].time_since_lastobs = -SecondsPerHour - 1
    /\ lastobs_df[1].lastobs_discharge = Rat(5, 1)
    /\ lastobs_df[2].lastobs_discharge = NaN

=============================================================================
